---- MODULE Spec2Model ----
(***************************************************************************)
(* A model of the raytracer crate: tuple and matrix algebra, rays,         *)
(* ray/sphere intersection, nearest-hit selection and the canvas.          *)
(*                                                                         *)
(* Float values (f64) are modelled as exact rationals n/d in lowest terms  *)
(* with d > 0, extended with the three non-finite values an f64 can take:  *)
(* d = 0 and n = 1 is +infinity, n = -1 is -infinity and n = 0 is NaN.     *)
(* Rounding of finite results is not modelled; division by zero, the       *)
(* INFINITY sentinel and NaN comparisons are.                              *)
(***************************************************************************)
EXTENDS Integers, Sequences, FiniteSets, TLC

VARIABLES
    pc,             \* the last call the caller made ("start" before the first)
    err,            \* the message of the panic that call ended in, "" when it returned
    world_ray,      \* the Ray the caller holds
    sphere,         \* the Sphere the caller holds
    moved,          \* Option<Ray>: what Ray::transform returned
    intersections,  \* the Vec<Intersection> of Ray::intersect, handed to get_hit
    hit,            \* the Option<Intersection> get_hit returned
    matrix,         \* the square matrix the caller holds
    inv,            \* Option<Matrix>: what matrix.inverse() returned
    prod,           \* Option<Matrix>: matrix.matmul(inverse), once computed
    column,         \* the Matrix<4, 1> handed to try_from
    converted,      \* the Result try_from returned
    canvas,         \* Canvas.data: the columns of the canvas, each a list of Colors
    last,           \* the last Canvas call: its name, arguments and the size before it
    got,            \* Option<Color>: what the last get_pixel returned
    ppm,            \* what the last write_ppm wrote, and how it ended
    args,           \* the arguments of the pure function under test
    result          \* what it returned

ray_vars == <<world_ray, sphere, moved, intersections, hit>>
mat_vars == <<matrix, inv, prod>>
tuple_vars == <<column, converted>>
canvas_vars == <<canvas, last, got, ppm>>
call_vars == <<args, result>>
vars == <<pc, err, ray_vars, mat_vars, tuple_vars, canvas_vars, call_vars>>

(***************************************************************************)
(* Bounds of the model.                                                    *)
(***************************************************************************)
MaxT == 2        \* finite t values of hand-built intersections: -MaxT..MaxT
MaxLen == 3      \* longest list handed to get_hit
MaxCoord == 1    \* z of ray origins: -MaxCoord..MaxCoord
MaxScale == 2    \* scaling factors of sphere transforms: 0..MaxScale
MaxEntry2 == 2   \* entries of 2x2 matrices: -MaxEntry2..MaxEntry2
MaxEntry3 == 1   \* first-row entries of 3x3 matrices: -MaxEntry3..MaxEntry3
MaxEntry4 == 1   \* bottom-row entries of 4x4 matrices: 0..MaxEntry4
MaxY == 1        \* rows written and read: y in 0..MaxY (and usize::MAX)
MaxH == 2        \* heights of the canvases exported by write_ppm: 0..MaxH
MaxLightY == 1   \* height of the lights above the surface point, in tens: 0..MaxLightY
MaxSide == 2     \* side of the square canvas main renders: 0..MaxSide

(***************************************************************************)
(* Float: primitives/float.rs, `pub type Float = f64`.                     *)
(***************************************************************************)
Abs(x) == IF x < 0 THEN -x ELSE x

Sign(x) == IF x < 0 THEN -1 ELSE IF x > 0 THEN 1 ELSE 0

RECURSIVE GCD(_, _)
GCD(a, b) == IF b = 0 THEN a ELSE GCD(b, a % b)

\* the value n/d, in lowest terms; d = 0 gives a non-finite value
Flt(n, d) ==
    IF d = 0 THEN [n |-> Sign(n), d |-> 0]
    ELSE IF d = 1 THEN [n |-> n, d |-> 1]
    ELSE LET g == GCD(Abs(n), Abs(d))
             s == IF d < 0 THEN -1 ELSE 1
         IN  [n |-> (s * n) \div g, d |-> (s * d) \div g]

F(i) == [n |-> i, d |-> 1]

INFINITY == [n |-> 1, d |-> 0]
NEG_INFINITY == [n |-> -1, d |-> 0]
NAN == [n |-> 0, d |-> 0]

\* a slip: only NaN is rejected, an infinite reciprocal passes
is_not_nan(x) == ~(x.d = 0 /\ x.n = 0)

is_finite(x) == x.d # 0
is_nan(x) == x.d = 0 /\ x.n = 0

\* Op applied to the value of x (of x and y): the argument is evaluated once
Let(x, Op(_)) == CHOOSE v \in {Op(a) : a \in {x}} : TRUE
Let2(x, y, Op(_, _)) == CHOOSE v \in {Op(a, b) : a \in {x}, b \in {y}} : TRUE

\* IEEE comparisons: every comparison with NaN is false
FLt(x, y) ==
    /\ ~is_nan(x)
    /\ ~is_nan(y)
    /\ IF x.d = 0 /\ y.d = 0 THEN x.n < y.n
       ELSE IF x.d = 0 THEN x.n < 0
       ELSE IF y.d = 0 THEN y.n > 0
       ELSE x.n * y.d < y.n * x.d

FGt(x, y) == FLt(y, x)

FEq(x, y) == ~is_nan(x) /\ ~is_nan(y) /\ x = y

FLe(x, y) == FLt(x, y) \/ FEq(x, y)

FNeg(x) == [n |-> -x.n, d |-> x.d]

FMul(x, y) == Flt(x.n * y.n, x.d * y.d)

FAdd(x, y) ==
    IF x.d = 0 /\ y.d = 0
    THEN (IF x.n = y.n THEN x ELSE NAN)
    ELSE Flt(x.n * y.d + y.n * x.d, x.d * y.d)

FSub(x, y) == FAdd(x, FNeg(y))

\* x / y; a finite non-zero value over zero is an infinity, 0/0 is NaN
FDiv(x, y) ==
    IF y.d = 0
    THEN (IF x.d = 0 THEN NAN ELSE IF y.n = 0 THEN NAN ELSE F(0))
    ELSE Flt(x.n * y.d, x.d * y.n)

(***************************************************************************)
(* Option<T>: None is the empty sequence, Some(v) the one-element one.     *)
(***************************************************************************)
None == <<>>
Some(v) == <<v>>
is_some(o) == o # <<>>
unwrap(o) == o[1]

(***************************************************************************)
(* primitives/matrix.rs: Matrix<M, N>, rows and columns indexed from 0     *)
(***************************************************************************)
Matrix(rows) == [i \in 0..(Len(rows) - 1) |->
                    [j \in 0..(Len(rows[i + 1]) - 1) |-> rows[i + 1][j + 1]]]

\* a matrix of integer literals
IntMatrix(rows) == [i \in 0..(Len(rows) - 1) |->
                       [j \in 0..(Len(rows[i + 1]) - 1) |-> F(rows[i + 1][j + 1])]]

NRows(m) == Cardinality(DOMAIN m)
NCols(m) == Cardinality(DOMAIN m[0])

zeros(M, N) == [i \in 0..(M - 1) |-> [j \in 0..(N - 1) |-> F(0)]]

ones(M, N) == [i \in 0..(M - 1) |-> [j \in 0..(N - 1) |-> F(1)]]

identity(N) == [i \in 0..(N - 1) |-> [j \in 0..(N - 1) |-> IF i = j THEN F(1) ELSE F(0)]]

\* out[i][j] starts at 0.0 and accumulates self[i][k] * rhs[k][j] for k = 0..N-1
RECURSIVE matmul_acc(_, _, _, _, _, _)
matmul_acc(self, rhs, i, j, k, acc) ==
    IF k = NCols(self) THEN acc
    ELSE matmul_acc(self, rhs, i, j, k + 1, FAdd(acc, FMul(self[i][k], rhs[k][j])))

\* a slip: the left operand read by column, self[k][i] for self[i][k]
matmul_by_column(self, rhs) ==
    Let2([j \in DOMAIN self[0] |-> [i \in DOMAIN self |-> self[i][j]]], rhs, LAMBDA a, b :
        [i \in DOMAIN a |-> [j \in DOMAIN b[0] |-> matmul_acc(a, b, i, j, 0, F(0))]])

matmul(self, rhs) ==
    Let2(self, rhs, LAMBDA a, b :
        [i \in DOMAIN a |-> [j \in DOMAIN b[0] |-> matmul_acc(a, b, i, j, 0, F(0))]])

transpose(self) == [j \in DOMAIN self[0] |-> [i \in DOMAIN self |-> self[i][j]]]

\* a slip: the offsets written into the last row
translation_in_row(x, y, z) ==
    Matrix(<< <<F(1), F(0), F(0), F(0)>>,
              <<F(0), F(1), F(0), F(0)>>,
              <<F(0), F(0), F(1), F(0)>>,
              <<x, y, z, F(1)>> >>)

translation(x, y, z) ==
    Matrix(<< <<F(1), F(0), F(0), x>>,
              <<F(0), F(1), F(0), y>>,
              <<F(0), F(0), F(1), z>>,
              <<F(0), F(0), F(0), F(1)>> >>)

scaling(x, y, z) ==
    Matrix(<< <<x, F(0), F(0), F(0)>>,
              <<F(0), y, F(0), F(0)>>,
              <<F(0), F(0), z, F(0)>>,
              <<F(0), F(0), F(0), F(1)>> >>)

shearing(xy, xz, yx, yz, zx, zy) ==
    Matrix(<< <<F(1), xy, xz, F(0)>>,
              <<yx, F(1), yz, F(0)>>,
              <<zx, zy, F(1), F(0)>>,
              <<F(0), F(0), F(0), F(1)>> >>)

\* Matrix4x4::rotation_x, given the sine and the cosine of the angle
rotation_x(sin, cos) ==
    Matrix(<< <<F(1), F(0), F(0), F(0)>>,
              <<F(0), cos, FNeg(sin), F(0)>>,
              <<F(0), sin, cos, F(0)>>,
              <<F(0), F(0), F(0), F(1)>> >>)

(***************************************************************************)
(* primitives/matrix.rs: trait Invertible                                  *)
(***************************************************************************)
determinant2x2(self) ==
    FSub(FMul(self[0][0], self[1][1]), FMul(self[0][1], self[1][0]))

inverse2x2(self) ==
    Let(FDiv(F(1), determinant2x2(self)), LAMBDA inv_det :
    IF is_finite(inv_det)
    THEN Some(Matrix(<<
            <<FMul(self[1][1], inv_det), FMul(FNeg(self[0][1]), inv_det)>>,
            <<FMul(FNeg(self[1][0]), inv_det), FMul(self[0][0], inv_det)>> >>))
    ELSE None)

Mul3(a, b, c) == FMul(FMul(a, b), c)

determinant3x3(self) ==
    FSub(FAdd(FAdd(FSub(FSub(
        Mul3(self[0][0], self[1][1], self[2][2]),
        Mul3(self[0][0], self[1][2], self[2][1])),
        Mul3(self[0][1], self[1][0], self[2][2])),
        Mul3(self[0][1], self[1][2], self[2][0])),
        Mul3(self[0][2], self[1][0], self[2][1])),
        Mul3(self[0][2], self[1][1], self[2][0]))

\* a slip: the two products of a 2x2 minor added
MulSum(a, b, c, d) == FAdd(FMul(a, b), FMul(c, d))

\* a slip: the first product of a cofactor not negated
MulAdd(a, b, c, d) == FAdd(FMul(a, b), FMul(c, d))

\* a * b - c * d   and   -a * b + c * d
MulSub(a, b, c, d) == FSub(FMul(a, b), FMul(c, d))
NegMulAdd(a, b, c, d) == FAdd(FMul(FNeg(a), b), FMul(c, d))

inverse3x3(self) ==
    Let(FDiv(F(1), determinant3x3(self)), LAMBDA inv_det :
    IF is_finite(inv_det)
    THEN Some(Matrix(<<
            <<FMul(MulSub(self[1][1], self[2][2], self[1][2], self[2][1]), inv_det),
              FMul(NegMulAdd(self[0][1], self[2][2], self[0][2], self[2][1]), inv_det),
              FMul(MulSub(self[0][1], self[1][2], self[0][2], self[1][1]), inv_det)>>,
            <<FMul(NegMulAdd(self[1][0], self[2][2], self[1][2], self[2][0]), inv_det),
              FMul(MulSub(self[0][0], self[2][2], self[0][2], self[2][0]), inv_det),
              FMul(NegMulAdd(self[0][0], self[1][2], self[0][2], self[1][0]), inv_det)>>,
            <<FMul(MulSub(self[1][0], self[2][1], self[1][1], self[2][0]), inv_det),
              FMul(NegMulAdd(self[0][0], self[2][1], self[0][1], self[2][0]), inv_det),
              FMul(MulSub(self[0][0], self[1][1], self[0][1], self[1][0]), inv_det)>> >>))
    ELSE None)

\* a * x - b * y + c * z   and   a * x - b * y - c * z
Exp3(a, x, b, y, c, z) == FAdd(FSub(FMul(a, x), FMul(b, y)), FMul(c, z))
\* a slip: the sign of the last term of a cofactor
Exp3m_plus(a, x, b, y, c, z) == FAdd(FSub(FMul(a, x), FMul(b, y)), FMul(c, z))

Exp3m(a, x, b, y, c, z) == FSub(FSub(FMul(a, x), FMul(b, y)), FMul(c, z))

determinant4x4(self) ==
    LET t2323 == MulSub(self[2][2], self[3][3], self[2][3], self[3][2])
        t1323 == MulSub(self[2][1], self[3][3], self[2][3], self[3][1])
        t1223 == MulSub(self[2][1], self[3][2], self[2][2], self[3][1])
        t0323 == MulSub(self[2][0], self[3][3], self[2][3], self[3][0])
        t0223 == MulSub(self[2][0], self[3][2], self[2][2], self[3][0])
        t0123 == MulSub(self[2][0], self[3][1], self[2][1], self[3][0])
    IN  FSub(FAdd(FSub(
            FMul(self[0][0], Exp3(self[1][1], t2323, self[1][2], t1323, self[1][3], t1223)),
            FMul(self[0][1], Exp3(self[1][0], t2323, self[1][2], t0323, self[1][3], t0223))),
            FMul(self[0][2], Exp3(self[1][0], t1323, self[1][1], t0323, self[1][3], t0123))),
            FMul(self[0][3], Exp3(self[1][0], t1223, self[1][1], t0223, self[1][2], t0123)))

inverse4x4(self) ==
    Let(FDiv(F(1), determinant4x4(self)), LAMBDA inv_det :
    IF is_finite(inv_det)
    THEN
      LET t2323 == MulSub(self[2][2], self[3][3], self[2][3], self[3][2])
          t1323 == MulSub(self[2][1], self[3][3], self[2][3], self[3][1])
          t1223 == MulSub(self[2][1], self[3][2], self[2][2], self[3][1])
          t0323 == MulSub(self[2][0], self[3][3], self[2][3], self[3][0])
          t0223 == MulSub(self[2][0], self[3][2], self[2][2], self[3][0])
          t0123 == MulSub(self[2][0], self[3][1], self[2][1], self[3][0])
          t2313 == MulSub(self[1][2], self[3][3], self[1][3], self[3][2])
          t1313 == MulSub(self[1][1], self[3][3], self[1][3], self[3][1])
          t1213 == MulSub(self[1][1], self[3][2], self[1][2], self[3][1])
          t2312 == MulSub(self[1][2], self[2][3], self[1][3], self[2][2])
          t1312 == MulSub(self[1][1], self[2][3], self[1][3], self[2][1])
          t1212 == MulSub(self[1][1], self[2][2], self[1][2], self[2][1])
          t0313 == MulSub(self[1][0], self[3][3], self[1][3], self[3][0])
          t0213 == MulSub(self[1][0], self[3][2], self[1][2], self[3][0])
          t0312 == MulSub(self[1][0], self[2][3], self[1][3], self[2][0])
          t0212 == MulSub(self[1][0], self[2][2], self[1][2], self[2][0])
          t0113 == MulSub(self[1][0], self[3][1], self[1][1], self[3][0])
          t0112 == MulSub(self[1][0], self[2][1], self[1][1], self[2][0])
      IN Some(Matrix(<<
          <<FMul(inv_det, Exp3(self[1][1], t2323, self[1][2], t1323, self[1][3], t1223)),
            FMul(inv_det, Exp3m(self[0][2], t1323, self[0][1], t2323, self[0][3], t1223)),
            FMul(inv_det, Exp3(self[0][1], t2313, self[0][2], t1313, self[0][3], t1213)),
            FMul(inv_det, Exp3m(self[0][2], t1312, self[0][1], t2312, self[0][3], t1212))>>,
          <<FMul(inv_det, Exp3m(self[1][2], t0323, self[1][0], t2323, self[1][3], t0223)),
            FMul(inv_det, Exp3(self[0][0], t2323, self[0][2], t0323, self[0][3], t0223)),
            FMul(inv_det, Exp3m(self[0][2], t0313, self[0][0], t2313, self[0][3], t0213)),
            FMul(inv_det, Exp3(self[0][0], t2312, self[0][2], t0312, self[0][3], t0212))>>,
          <<FMul(inv_det, Exp3(self[1][0], t1323, self[1][1], t0323, self[1][3], t0123)),
            FMul(inv_det, Exp3m(self[0][1], t0323, self[0][0], t1323, self[0][3], t0123)),
            FMul(inv_det, Exp3(self[0][0], t1313, self[0][1], t0313, self[0][3], t0113)),
            FMul(inv_det, Exp3m(self[0][1], t0312, self[0][0], t1312, self[0][3], t0112))>>,
          <<FMul(inv_det, Exp3m(self[1][1], t0223, self[1][0], t1223, self[1][2], t0123)),
            FMul(inv_det, Exp3(self[0][0], t1223, self[0][1], t0223, self[0][2], t0123)),
            FMul(inv_det, Exp3m(self[0][1], t0213, self[0][0], t1213, self[0][2], t0113)),
            FMul(inv_det, Exp3(self[0][0], t1212, self[0][1], t0212, self[0][2], t0112))>> >>))
    ELSE None)

(***************************************************************************)
(* primitives/tuple.rs: Point (w = 1) and Vector (w = 0)                   *)
(***************************************************************************)
Tuple(x, y, z) == [x |-> x, y |-> y, z |-> z]

origin == Tuple(F(0), F(0), F(0))

\* impl From<Point> for Matrix<4, 1> and impl From<Vector> for Matrix<4, 1>
point_into(value) == Matrix(<< <<value.x>>, <<value.y>>, <<value.z>>, <<F(1)>> >>)
vector_into(value) == Matrix(<< <<value.x>>, <<value.y>>, <<value.z>>, <<F(0)>> >>)

\* Result<T, String>
Ok(v) == [ok |-> TRUE, val |-> v]
Err(e) == [ok |-> FALSE, val |-> e]

\* a slip: w compared within a tolerance, as the approximate equality of
\* tuples does
try_from_approx(value, name, w) ==
    IF FLt(FSub(value[3][0], w), Flt(1, 1000)) /\ FLt(FSub(w, value[3][0]), Flt(1, 1000))
    THEN Ok(Tuple(value[0][0], value[1][0], value[2][0]))
    ELSE Err([x |-> value[0][0], y |-> value[1][0], z |-> value[2][0],
              w |-> value[3][0], name |-> name, expected |-> w])

\* impl TryFrom<Matrix<4, 1>> for $name, with $w the expected w
try_from(value, name, w) ==
    IF FEq(value[3][0], w)
    THEN Ok(Tuple(value[0][0], value[1][0], value[2][0]))
    ELSE Err([x |-> value[0][0], y |-> value[1][0], z |-> value[2][0],
              w |-> value[3][0], name |-> name, expected |-> w])

point_try_from(value) == try_from(value, "Point", F(1))
vector_try_from(value) == try_from(value, "Vector", F(0))

\* impl_add!: Point + Vector, Vector + Point, Vector + Vector
add(lhs, rhs) == Tuple(FAdd(lhs.x, rhs.x), FAdd(lhs.y, rhs.y), FAdd(lhs.z, rhs.z))

\* a slip: a sum for the difference in the x component
cross_summed(self, rhs) ==
    Tuple(FAdd(FMul(self.y, rhs.z), FMul(self.z, rhs.y)),
          FSub(FMul(self.z, rhs.x), FMul(self.x, rhs.z)),
          FSub(FMul(self.x, rhs.y), FMul(self.y, rhs.x)))

\* Vector::cross
cross(self, rhs) ==
    Tuple(FSub(FMul(self.y, rhs.z), FMul(self.z, rhs.y)),
          FSub(FMul(self.z, rhs.x), FMul(self.x, rhs.z)),
          FSub(FMul(self.x, rhs.y), FMul(self.y, rhs.x)))

sub(lhs, rhs) == Tuple(FSub(lhs.x, rhs.x), FSub(lhs.y, rhs.y), FSub(lhs.z, rhs.z))

dot(self, rhs) ==
    FAdd(FAdd(FMul(self.x, rhs.x), FMul(self.y, rhs.y)), FMul(self.z, rhs.z))

squared_length(self) == dot(self, self)

(***************************************************************************)
(* primitives/color.rs, material.rs, objects/sphere.rs                     *)
(***************************************************************************)
Color(r, g, b) == [r |-> r, g |-> g, b |-> b]
black == Color(F(0), F(0), F(0))
white == Color(F(1), F(1), F(1))

default_material ==
    [color |-> white, ambient |-> Flt(1, 10), diffuse |-> Flt(9, 10),
     specular |-> Flt(9, 10), shininess |-> F(200)]

Sphere(transform, material) == [transform |-> transform, material |-> material]

default_sphere == Sphere(identity(4), default_material)

(***************************************************************************)
(* ray.rs: Ray                                                             *)
(***************************************************************************)
\* the outcome of a call: a returned value, or a panic with its message
Return(v) == [panicked |-> FALSE, val |-> v]
Panic(msg) == [panicked |-> TRUE, val |-> msg]

Ray(o, d) == [origin |-> o, direction |-> d]

Intersection(t, object) == [t |-> t, object |-> object]

\* Float::sqrt: NaN for NaN and negative values, +infinity for +infinity; a
\* finite n/d is rounded down to a multiple of 1/(d * SqrtGrid)
SqrtGrid == 100

\* the largest i with i * i <= n, between lo and hi
RECURSIVE isqrt(_, _, _)
isqrt(n, lo, hi) ==
    IF lo >= hi THEN lo
    ELSE LET mid == (lo + hi + 1) \div 2 IN
         IF mid * mid <= n THEN isqrt(n, mid, hi) ELSE isqrt(n, lo, mid - 1)

\* the grid a root is rounded down to: 1/SqrtGrid, coarser for the values
\* whose scaled square would not fit the 32-bit integers of the checker
sqrt_grid(a) ==
    IF a.n <= (2147483647 \div (SqrtGrid * SqrtGrid)) \div a.d THEN SqrtGrid
    ELSE IF a.n <= (2147483647 \div ((SqrtGrid \div 10) * (SqrtGrid \div 10))) \div a.d
    THEN SqrtGrid \div 10
    ELSE 1

sqrt(x) ==
    Let(x, LAMBDA a :
        IF is_nan(a) \/ FLt(a, F(0)) THEN NAN
        ELSE IF a.d = 0 THEN INFINITY
        ELSE Let2(sqrt_grid(a), a.n * a.d * sqrt_grid(a) * sqrt_grid(a), LAMBDA g, n :
                Flt(isqrt(n, 0, IF n < 46340 THEN n ELSE 46340), a.d * g)))

transform(self, m) ==
    Let2(point_try_from(matmul(m, point_into(self.origin))),
         vector_try_from(matmul(m, vector_into(self.direction))),
         LAMBDA o, d :
            IF ~o.ok
            THEN Panic("origin should be convertible into Point after applying transform")
            ELSE IF ~d.ok
            THEN Panic("direction should be convertible into Vector after applying transform")
            ELSE Return(Ray(o.val, d.val)))

\* the coefficients a, b, c of the quadratic for the unit sphere at the origin
quadratic(ray) ==
    Let(sub(ray.origin, origin), LAMBDA sphere_to_ray :
        [a |-> squared_length(ray.direction),
         b |-> FMul(F(2), dot(ray.direction, sphere_to_ray)),
         c |-> FSub(squared_length(sphere_to_ray), F(1))])

discriminant(q) == FSub(FMul(q.b, q.b), FMul(FMul(F(4), q.a), q.c))

\* a slip: a tangent ray reported once
roots_dedup(q, object) ==
    IF FLt(discriminant(q), F(0))
    THEN <<>>
    ELSE Let2(sqrt(discriminant(q)), FDiv(F(1), FMul(F(2), q.a)), LAMBDA sq, div :
            IF FEq(sq, F(0))
            THEN << Intersection(FMul(FNeg(q.b), div), object) >>
            ELSE << Intersection(FMul(FSub(FNeg(q.b), sq), div), object),
                    Intersection(FMul(FAdd(FNeg(q.b), sq), div), object) >>)

\* a slip: the two roots in the other order
roots_swapped(q, object) ==
    IF FLt(discriminant(q), F(0))
    THEN <<>>
    ELSE Let2(sqrt(discriminant(q)), FDiv(F(1), FMul(F(2), q.a)), LAMBDA sq, div :
            << Intersection(FMul(FAdd(FNeg(q.b), sq), div), object),
               Intersection(FMul(FSub(FNeg(q.b), sq), div), object) >>)

\* a slip: the intersections tagged with the unit sphere of local space
roots_local(q, object) ==
    IF FLt(discriminant(q), F(0))
    THEN <<>>
    ELSE Let2(sqrt(discriminant(q)), FDiv(F(1), FMul(F(2), q.a)), LAMBDA sq, div :
            << Intersection(FMul(FSub(FNeg(q.b), sq), div), default_sphere),
               Intersection(FMul(FAdd(FNeg(q.b), sq), div), default_sphere) >>)

\* the branch on the discriminant and the two roots
roots(q, object) ==
    IF FLt(discriminant(q), F(0))
    THEN <<>>
    ELSE Let2(sqrt(discriminant(q)), FDiv(F(1), FMul(F(2), q.a)), LAMBDA sq, div :
            << Intersection(FMul(FSub(FNeg(q.b), sq), div), object),
               Intersection(FMul(FAdd(FNeg(q.b), sq), div), object) >>)

\* a slip: the inverse unwrapped with expect instead of matched
intersect_expect(self, object) ==
    Let(inverse4x4(object.transform), LAMBDA inverse_transform :
        IF inverse_transform = None
        THEN Panic("transform should be invertible")
        ELSE Let(transform(self, unwrap(inverse_transform)), LAMBDA ray :
                IF ray.panicked THEN ray
                ELSE Let(quadratic(ray.val), LAMBDA q : Return(roots(q, object)))))

\* a slip: the quadratic set up for the ray as given, in world space
intersect_in_world(self, object) ==
    Let(inverse4x4(object.transform), LAMBDA inverse_transform :
        IF inverse_transform = None
        THEN Return(<<>>)
        ELSE Let(quadratic(self), LAMBDA q : Return(roots(q, object))))

intersect(self, object) ==
    Let(inverse4x4(object.transform), LAMBDA inverse_transform :
        IF inverse_transform = None
        THEN Return(<<>>)
        ELSE Let(transform(self, unwrap(inverse_transform)), LAMBDA ray :
                IF ray.panicked THEN ray
                ELSE Let(quadratic(ray.val), LAMBDA q : Return(roots(q, object)))))

(***************************************************************************)
(* primitives/tuple.rs and primitives/color.rs: the operators lighting     *)
(* uses; point_light.rs; material.rs: Material::lighting                   *)
(***************************************************************************)
vector_neg(self) == Tuple(FNeg(self.x), FNeg(self.y), FNeg(self.z))

vector_mul(self, rhs) == Tuple(FMul(self.x, rhs), FMul(self.y, rhs), FMul(self.z, rhs))

vector_div(self, rhs) == Tuple(FDiv(self.x, rhs), FDiv(self.y, rhs), FDiv(self.z, rhs))

\* a slip: the square root left out
length_unrooted(self) == squared_length(self)

length(self) == sqrt(squared_length(self))

normalize(self) == Let(length(self), LAMBDA len : vector_div(self, len))

\* Vector::reflect: self mirrored about normal, self - normal * 2 * self.dot(normal)
reflect(self, normal) ==
    Let(FMul(F(2), dot(self, normal)), LAMBDA twice :
        sub(self, vector_mul(normal, twice)))

color_add(self, rhs) == Color(FAdd(self.r, rhs.r), FAdd(self.g, rhs.g), FAdd(self.b, rhs.b))

color_mul(self, rhs) == Color(FMul(self.r, rhs.r), FMul(self.g, rhs.g), FMul(self.b, rhs.b))

color_mul_float(self, rhs) == Color(FMul(self.r, rhs), FMul(self.g, rhs), FMul(self.b, rhs))

\* Float::powf for a whole exponent y >= 0, by repeated squaring; every
\* product is rounded down to a multiple of 1/PowGrid
PowGrid == 1000

to_grid(v) == IF v.d = 0 THEN v ELSE Flt((v.n * PowGrid) \div v.d, PowGrid)

RECURSIVE pow_loop(_, _, _)
pow_loop(base, k, acc) ==
    IF k = 0 THEN acc
    ELSE pow_loop(to_grid(FMul(base, base)), k \div 2,
                  IF k % 2 = 1 THEN to_grid(FMul(acc, base)) ELSE acc)

powf(x, y) == pow_loop(to_grid(x), y.n, F(1))

PointLight(position, intensity) == [position |-> position, intensity |-> intensity]

Material(color, ambient, diffuse, specular, shininess) ==
    [color |-> color, ambient |-> ambient, diffuse |-> diffuse,
     specular |-> specular, shininess |-> shininess]

\* the specular term, computed when light_dot_normal > 0
specular_term(self, light, lightv, eye, normal) ==
    Let(dot(reflect(vector_neg(lightv), normal), eye), LAMBDA reflect_dot_eye :
        IF FGt(reflect_dot_eye, F(0))
        THEN color_mul_float(color_mul_float(light.intensity, self.specular),
                             powf(reflect_dot_eye, self.shininess))
        ELSE black)

\* a slip: the diffuse and specular terms computed whatever the sign of
\* light_dot_normal
lighting_unguarded(self, light, point, eye, normal) ==
    Let2(color_mul(self.color, light.intensity), normalize(sub(light.position, point)),
         LAMBDA effective_color, lightv :
         Let(dot(lightv, normal), LAMBDA light_dot_normal :
             LET ambient == color_mul_float(effective_color, self.ambient)
                 diffuse == color_mul_float(color_mul_float(effective_color, self.diffuse),
                                            light_dot_normal)
                 specular == specular_term(self, light, lightv, eye, normal)
             IN  [light_dot_normal |-> light_dot_normal, ambient |-> ambient,
                  diffuse |-> diffuse, specular |-> specular,
                  color |-> color_add(color_add(ambient, diffuse), specular)]))

\* Material::lighting: the colour returned, with light_dot_normal and the
\* three terms it is the sum of
lighting(self, light, point, eye, normal) ==
    Let2(color_mul(self.color, light.intensity), normalize(sub(light.position, point)),
         LAMBDA effective_color, lightv :
         Let(dot(lightv, normal), LAMBDA light_dot_normal :
             LET ambient == color_mul_float(effective_color, self.ambient)
                 lit == FGt(light_dot_normal, F(0))
                 diffuse == IF lit
                            THEN color_mul_float(
                                     color_mul_float(effective_color, self.diffuse),
                                     light_dot_normal)
                            ELSE black
                 specular == IF lit
                             THEN specular_term(self, light, lightv, eye, normal)
                             ELSE black
             IN  [light_dot_normal |-> light_dot_normal, ambient |-> ambient,
                  diffuse |-> diffuse, specular |-> specular,
                  color |-> color_add(color_add(ambient, diffuse), specular)]))

(***************************************************************************)
(* objects/sphere.rs: Sphere::normal_at                                    *)
(***************************************************************************)
\* data[3][0] = 0.0 on a 4x1 matrix
zero_w(m) == [m EXCEPT ![3] = [j \in DOMAIN m[3] |-> F(0)]]

\* a slip: the w of the world normal left as the transpose made it
normal_at_keep_w(self, world_point) ==
    Let(inverse4x4(self.transform), LAMBDA inverse :
        IF inverse = None
        THEN Panic("transform should be invertible")
        ELSE Let(unwrap(inverse), LAMBDA inv_transform :
                Let(matmul(transpose(inv_transform),
                           zero_w(matmul(inv_transform, point_into(world_point)))),
                    LAMBDA world_normal :
                    Let(vector_try_from(world_normal), LAMBDA v :
                        IF ~v.ok
                        THEN Panic("should be convertible to Vector")
                        ELSE Return(normalize(v.val))))))

normal_at(self, world_point) ==
    Let(inverse4x4(self.transform), LAMBDA inverse :
        IF inverse = None
        THEN Panic("transform should be invertible")
        ELSE Let(unwrap(inverse), LAMBDA inv_transform :
                Let(zero_w(matmul(transpose(inv_transform),
                                  zero_w(matmul(inv_transform, point_into(world_point))))),
                    LAMBDA world_normal :
                    Let(vector_try_from(world_normal), LAMBDA v :
                        IF ~v.ok
                        THEN Panic("should be convertible to Vector")
                        ELSE Return(normalize(v.val))))))

(***************************************************************************)
(* ray.rs: get_hit                                                         *)
(***************************************************************************)
RECURSIVE get_hit_loop(_, _, _, _)
get_hit_loop(xs, i, h, min_t) ==
    IF i > Len(xs) THEN h
    ELSE IF FGt(xs[i].t, F(0)) /\ FLt(xs[i].t, min_t)
         THEN get_hit_loop(xs, i + 1, Some(xs[i]), xs[i].t)
         ELSE get_hit_loop(xs, i + 1, h, min_t)

get_hit(xs) == get_hit_loop(xs, 1, None, INFINITY)

(***************************************************************************)
(* canvas.rs: Canvas { data: Vec<Vec<Color>> }; data[x][y] of the source   *)
(* is data[x + 1][y + 1] here                                              *)
(***************************************************************************)
CLEAR_COLOR == black

\* usize::MAX, scaled down to 16 bits to stay inside TLC's integers
USIZE_MAX == 65535

\* vec![elem; n]
vec(elem, n) == [i \in 1..n |-> elem]

\* Vec::resize(new_len, fill): truncates, or appends copies of fill
vec_resize(v, new_len, fill) ==
    IF new_len <= Len(v) THEN SubSeq(v, 1, new_len)
    ELSE v \o vec(fill, new_len - Len(v))

\* a slip: no special case for a zero width or height
new_plain(w, h) == vec(vec(CLEAR_COLOR, h), w)

new(w, h) ==
    IF h = 0 THEN <<>>
    ELSE IF w = 0 THEN <<>>
    ELSE vec(vec(CLEAR_COLOR, h), w)

width(data) == Len(data)

height(data) == IF data = <<>> THEN 0 ELSE Len(data[1])

\* a slip: only the number of columns adjusted, the columns left as they are
resize_columns_only(data, new_width, new_height) ==
    IF new_width # width(data)
    THEN vec_resize(data, new_width, vec(CLEAR_COLOR, new_height))
    ELSE data

\* a slip: a canvas of the new size made afresh when the size changes
resize_afresh(data, new_width, new_height) ==
    IF new_width # width(data) \/ new_height # height(data)
    THEN vec(vec(CLEAR_COLOR, new_height), new_width)
    ELSE data

resize(data, new_width, new_height) ==
    LET rows == IF new_height # height(data)
                THEN [x \in 1..Len(data) |-> vec_resize(data[x], new_height, CLEAR_COLOR)]
                ELSE data
    IN  IF new_width # width(rows)
        THEN vec_resize(rows, new_width, vec(CLEAR_COLOR, new_height))
        ELSE rows

max(a, b) == IF a >= b THEN a ELSE b

\* x + 1 on usize: with overflow checks (a debug build) an overflow panics,
\* without them (a release build) it wraps
add_one(x, overflow_checks) ==
    IF x < USIZE_MAX THEN Return(x + 1)
    ELSE IF overflow_checks THEN Panic("attempt to add with overflow")
    ELSE Return(0)

\* a slip: a write outside the canvas is dropped instead of growing it
set_pixel_no_grow(data, x, y, color, overflow_checks) ==
    IF x + 1 > Len(data) \/ y + 1 > Len(data[x + 1])
    THEN [data |-> data, err |-> ""]
    ELSE [data |-> [data EXCEPT ![x + 1][y + 1] = color], err |-> ""]

\* the canvas after the call, and how the call ended
set_pixel(data, x, y, color, overflow_checks) ==
    LET x1 == add_one(x, overflow_checks)
        y1 == add_one(y, overflow_checks)
    IN  IF x1.panicked THEN [data |-> data, err |-> x1.val]
        ELSE IF y1.panicked THEN [data |-> data, err |-> y1.val]
        ELSE LET new_width == max(width(data), x1.val)
                 new_height == max(height(data), y1.val)
                 grown == resize(data, new_width, new_height)
             IN  IF x + 1 > Len(grown) \/ y + 1 > Len(grown[x + 1])
                 THEN [data |-> grown, err |-> "index out of bounds"]
                 ELSE [data |-> [grown EXCEPT ![x + 1][y + 1] = color], err |-> ""]

\* a slip: a read outside the canvas answered with the clear colour
get_pixel_or_clear(data, x, y) ==
    IF x + 1 <= Len(data)
    THEN (IF y + 1 <= Len(data[x + 1]) THEN Some(data[x + 1][y + 1]) ELSE Some(CLEAR_COLOR))
    ELSE Some(CLEAR_COLOR)

get_pixel(data, x, y) ==
    IF x + 1 <= Len(data)
    THEN (IF y + 1 <= Len(data[x + 1]) THEN Some(data[x + 1][y + 1]) ELSE None)
    ELSE None

\* f64::max and f64::min: a NaN operand is ignored
FMax(x, y) == IF is_nan(x) THEN y ELSE IF is_nan(y) THEN x ELSE IF FLt(x, y) THEN y ELSE x
FMin(x, y) == IF is_nan(x) THEN y ELSE IF is_nan(y) THEN x ELSE IF FLt(y, x) THEN y ELSE x

\* "{:.0}" of a finite value: the nearest integer, a tie going to the even one
fmt0(v) ==
    LET a == Abs(v.n)
        q == a \div v.d
        twice == 2 * (a % v.d)
        r == IF twice > v.d THEN q + 1
             ELSE IF twice < v.d THEN q
             ELSE IF q % 2 = 0 THEN q ELSE q + 1
    IN  IF v.n < 0 THEN -r ELSE r

\* a slip: the clamp from below forgotten
channel_no_max(c) == fmt0(FMin(FMul(F(255), c), F(255)))

\* (255.0 * c).max(0.0).min(255.0), formatted with "{:.0}"
channel(c) == fmt0(FMin(FMax(FMul(F(255), c), F(0)), F(255)))

pixel_line(pixel) == <<channel(pixel.r), channel(pixel.g), channel(pixel.b)>>

\* a slip: the loops nested the other way round, x outside and y inside
RECURSIVE ppm_pixels_by_column(_, _, _, _)
ppm_pixels_by_column(data, y, x, out) ==
    IF x >= width(data) THEN Return(out)
    ELSE IF y >= height(data) THEN ppm_pixels_by_column(data, 0, x + 1, out)
    ELSE LET pixel == get_pixel(data, x, y) IN
         IF pixel = None
         THEN Panic("the requested pixel should always be inside the canvas")
         ELSE ppm_pixels_by_column(data, y + 1, x, Append(out, pixel_line(unwrap(pixel))))

\* the two loops of write_ppm, from (x, y) on: the pixel lines, or the panic
\* of expect
RECURSIVE ppm_pixels(_, _, _, _)
ppm_pixels(data, y, x, out) ==
    IF y >= height(data) THEN Return(out)
    ELSE IF x >= width(data) THEN ppm_pixels(data, y + 1, 0, out)
    ELSE LET pixel == get_pixel(data, x, y) IN
         IF pixel = None
         THEN Panic("the requested pixel should always be inside the canvas")
         ELSE ppm_pixels(data, y, x + 1, Append(out, pixel_line(unwrap(pixel))))

\* write_ppm into a writer with room for the given number of lines (None: for
\* any number) before writeln! fails: the lines written and how the call
\* ended ("" for Ok(()), "io" for an Err of the writer, or the panic)
write_ppm(data, room) ==
    LET header == << <<"P3">>, <<width(data), height(data)>>, <<255>> >>
        pixels == ppm_pixels(data, 0, 0, <<>>)
    IN  IF room # None /\ unwrap(room) < Len(header)
        THEN [err |-> "io", lines |-> SubSeq(header, 1, unwrap(room))]
        ELSE IF pixels.panicked
        THEN [err |-> pixels.val, lines |-> header]
        ELSE IF room # None /\ unwrap(room) < Len(header) + Len(pixels.val)
        THEN [err |-> "io", lines |-> SubSeq(header \o pixels.val, 1, unwrap(room))]
        ELSE [err |-> "", lines |-> header \o pixels.val]

(***************************************************************************)
(* main.rs: the driver.  It is written for a canvas of fixed size,         *)
(* Canvas::<W, H>::new() with a set_pixel that returns a Result; that      *)
(* canvas is modelled as the specification describes it: W x H clear       *)
(* pixels, and a write outside the canvas is a checked error.              *)
(***************************************************************************)
fixed_new(W, H) == vec(vec(CLEAR_COLOR, H), W)

fixed_set_pixel(data, x, y, color) ==
    IF x < width(data) /\ y < height(data)
    THEN Ok([data EXCEPT ![x + 1][y + 1] = color])
    ELSE Err("pixel outside the canvas")

\* a slip: the inner loop stops one row early
next_pixel_short(x, y, h) == IF y + 1 >= h - 1 THEN [x |-> x + 1, y |-> 0] ELSE [x |-> x, y |-> y + 1]

\* for x in 0..canvas.width() { for y in 0..canvas.height() { .. } }: the
\* counters of the iteration after the one at (x, y)
next_pixel(x, y, h) == IF y + 1 >= h THEN [x |-> x + 1, y |-> 0] ELSE [x |-> x, y |-> y + 1]

(***************************************************************************)
(* Inputs                                                                  *)
(***************************************************************************)
\* identity with the bottom row replaced: a matrix that is not affine
projective(p, q, r, w) ==
    Matrix(<< <<F(1), F(0), F(0), F(0)>>,
              <<F(0), F(1), F(0), F(0)>>,
              <<F(0), F(0), F(1), F(0)>>,
              <<p, q, r, w>> >>)

Transforms ==
    {translation(F(x), F(y), F(z)) : x \in 0..1, y \in 0..1, z \in 0..1}
    \cup {scaling(F(x), F(y), F(1)) : x \in 0..MaxScale, y \in 0..MaxScale}
    \cup {matmul(translation(F(0), F(1), F(0)), scaling(F(2), F(2), F(2))),
          shearing(F(1), F(0), F(0), F(0), F(0), F(0)),
          shearing(F(0), F(0), F(0), F(1), F(0), F(1)),
          projective(F(0), F(0), F(0), F(2)),
          projective(F(0), F(0), F(1), F(1)),
          projective(F(0), F(1), F(0), F(0)),
          zeros(4, 4), ones(4, 4)}

Spheres == {Sphere(t, default_material) : t \in Transforms}

Origins ==
    {Tuple(F(x), F(y), F(z)) :
        x \in 0..1, y \in -1..1, z \in -MaxCoord..MaxCoord}

Directions == {Tuple(F(x), F(y), F(z)) : x \in 0..1, y \in 0..1, z \in -1..1}

Rays == {Ray(o, d) : o \in Origins, d \in Directions}

\* the t of a hand-built Intersection: any f64, non-finite ones included
TValues == {F(i) : i \in -MaxT..MaxT} \cup {INFINITY, NEG_INFINITY, NAN}

HitObjects == {default_sphere, Sphere(translation(F(0), F(1), F(0)), default_material)}

RECURSIVE ListsUpTo(_, _)
ListsUpTo(S, n) ==
    IF n = 0 THEN {<<>>}
    ELSE LET shorter == ListsUpTo(S, n - 1) IN
         shorter \cup {Append(l, e) : l \in {k \in shorter : Len(k) = n - 1}, e \in S}

Matrices2 ==
    {IntMatrix(<< <<a, b>>, <<c, d>> >>) :
        a \in -MaxEntry2..MaxEntry2, b \in -MaxEntry2..MaxEntry2,
        c \in -MaxEntry2..MaxEntry2, d \in -MaxEntry2..MaxEntry2}

Rows3 == {<<a, b, c>> : a \in -1..1, b \in -1..1, c \in -1..1}

Matrices3 ==
    {IntMatrix(<<r0, r1, r2>>) :
        r0 \in {<<a, b, c>> : a \in -MaxEntry3..MaxEntry3, b \in -MaxEntry3..MaxEntry3,
                              c \in -MaxEntry3..MaxEntry3},
        r1 \in Rows3,
        r2 \in {<<0, 0, 1>>, <<1, 1, 1>>, <<1, -1, 0>>}}

Matrices4 ==
    {IntMatrix(<< <<a, b, 0, c>>, <<1, d, e, 0>>, <<0, 1, 1, f>>, <<g, 0, h, 1>> >>) :
        a \in -1..1, b \in -1..1, c \in -1..1, d \in -1..1, e \in -1..1, f \in -1..1,
        g \in 0..MaxEntry4, h \in 0..MaxEntry4}
    \cup Transforms \cup {identity(4)}

Matrices == Matrices2 \cup Matrices3 \cup Matrices4
            \cup {identity(2), identity(3), ones(2, 2), ones(3, 3)}

\* w components: the two exact constants, and values that are not
WValues == {F(-1), F(0), F(1), F(2), Flt(1, 2), Flt(99999, 100000), Flt(1, 100000),
            INFINITY, NAN}

Columns ==
    {Matrix(<< <<F(x)>>, <<F(y)>>, <<F(z)>>, <<w>> >>) :
        x \in -1..1, y \in -1..1, z \in -1..1, w \in WValues}

\* the clear colour and a colour outside [0, 1]
Colors == {CLEAR_COLOR, Color(Flt(-1, 2), Flt(2, 5), Flt(17, 10))}

(***************************************************************************)
(* The values of the variables a specification does not use.               *)
(***************************************************************************)
RayIdle ==
    /\ world_ray = Ray(origin, Tuple(F(0), F(0), F(1)))
    /\ sphere = default_sphere
    /\ moved = None
    /\ intersections = <<>>
    /\ hit = None

MatIdle == matrix = identity(2) /\ inv = None /\ prod = None

TupleIdle == column = point_into(origin) /\ converted = Ok(origin)

Call(op, x, y, color, data) ==
    [op |-> op, x |-> x, y |-> y, color |-> color,
     old_width |-> width(data), old_height |-> height(data)]

CallIdle == args = <<>> /\ result = <<>>

NoPpm == [err |-> "", lines |-> <<>>]

CanvasIdle ==
    /\ canvas = <<>>
    /\ last = Call("none", 0, 0, CLEAR_COLOR, <<>>)
    /\ got = None
    /\ ppm = NoPpm

(***************************************************************************)
(* SpecRay: a caller holding a ray and a sphere calls Ray::transform with  *)
(* the sphere's matrix, or Ray::intersect and then get_hit, as main does.  *)
(***************************************************************************)
InitRay ==
    /\ pc = "start"
    /\ err = ""
    /\ world_ray \in Rays
    /\ sphere \in Spheres
    /\ moved = None
    /\ intersections = <<>>
    /\ hit = None
    /\ MatIdle /\ TupleIdle /\ CanvasIdle /\ CallIdle

Transform ==
    /\ pc = "start"
    /\ pc' = "transform"
    /\ LET r == transform(world_ray, sphere.transform) IN
       IF r.panicked
       THEN err' = r.val /\ UNCHANGED moved
       ELSE moved' = Some(r.val) /\ UNCHANGED err
    /\ UNCHANGED <<world_ray, sphere, intersections, hit>>
    /\ UNCHANGED <<mat_vars, tuple_vars, canvas_vars, call_vars>>

Intersect ==
    /\ pc = "start"
    /\ pc' = "intersect"
    /\ LET r == intersect(world_ray, sphere) IN
       IF r.panicked
       THEN err' = r.val /\ UNCHANGED intersections
       ELSE intersections' = r.val /\ UNCHANGED err
    /\ UNCHANGED <<world_ray, sphere, moved, hit>>
    /\ UNCHANGED <<mat_vars, tuple_vars, canvas_vars, call_vars>>

GetHit ==
    /\ pc = "intersect"
    /\ err = ""
    /\ pc' = "get_hit"
    /\ hit' = get_hit(intersections)
    /\ UNCHANGED <<err, world_ray, sphere, moved, intersections>>
    /\ UNCHANGED <<mat_vars, tuple_vars, canvas_vars, call_vars>>

NextRay == Transform \/ Intersect \/ GetHit

SpecRay == InitRay /\ [][NextRay]_vars

(***************************************************************************)
(* SpecHit: get_hit on an arbitrary list of intersections.                 *)
(***************************************************************************)
InitHit ==
    /\ pc = "intersect"
    /\ err = ""
    /\ world_ray = Ray(origin, Tuple(F(0), F(0), F(1)))
    /\ sphere = default_sphere
    /\ moved = None
    /\ intersections \in
          ListsUpTo({Intersection(t, o) : t \in TValues, o \in HitObjects}, MaxLen)
    /\ hit = None
    /\ MatIdle /\ TupleIdle /\ CanvasIdle /\ CallIdle

NextHit == GetHit

SpecHit == InitHit /\ [][NextHit]_vars

(***************************************************************************)
(* SpecMat: a caller holding a 2x2, 3x3 or 4x4 matrix inverts it and       *)
(* multiplies the matrix by its inverse.                                   *)
(***************************************************************************)
InitMat ==
    /\ pc = "start"
    /\ err = ""
    /\ matrix \in Matrices
    /\ inv = None
    /\ prod = None
    /\ RayIdle /\ TupleIdle /\ CanvasIdle /\ CallIdle

Inverse2x2 ==
    /\ pc = "start"
    /\ NRows(matrix) = 2
    /\ pc' = "inverse"
    /\ inv' = inverse2x2(matrix)
    /\ UNCHANGED <<err, matrix, prod, ray_vars, tuple_vars, canvas_vars, call_vars>>

Inverse3x3 ==
    /\ pc = "start"
    /\ NRows(matrix) = 3
    /\ pc' = "inverse"
    /\ inv' = inverse3x3(matrix)
    /\ UNCHANGED <<err, matrix, prod, ray_vars, tuple_vars, canvas_vars, call_vars>>

Inverse4x4 ==
    /\ pc = "start"
    /\ NRows(matrix) = 4
    /\ pc' = "inverse"
    /\ inv' = inverse4x4(matrix)
    /\ UNCHANGED <<err, matrix, prod, ray_vars, tuple_vars, canvas_vars, call_vars>>

Matmul ==
    /\ pc = "inverse"
    /\ inv # None
    /\ pc' = "matmul"
    /\ prod' = Some(matmul(matrix, unwrap(inv)))
    /\ UNCHANGED <<err, matrix, inv, ray_vars, tuple_vars, canvas_vars, call_vars>>

NextMat == Inverse2x2 \/ Inverse3x3 \/ Inverse4x4 \/ Matmul

SpecMat == InitMat /\ [][NextMat]_vars

(***************************************************************************)
(* SpecTuple: a caller converts a 4x1 matrix to a Point or to a Vector.    *)
(***************************************************************************)
InitTuple ==
    /\ pc = "start"
    /\ err = ""
    /\ column \in Columns
    /\ converted = Ok(origin)
    /\ RayIdle /\ MatIdle /\ CanvasIdle /\ CallIdle

PointTryFrom ==
    /\ pc = "start"
    /\ pc' = "point_try_from"
    /\ converted' = point_try_from(column)
    /\ UNCHANGED <<err, column, ray_vars, mat_vars, canvas_vars, call_vars>>

VectorTryFrom ==
    /\ pc = "start"
    /\ pc' = "vector_try_from"
    /\ converted' = vector_try_from(column)
    /\ UNCHANGED <<err, column, ray_vars, mat_vars, canvas_vars, call_vars>>

NextTuple == PointTryFrom \/ VectorTryFrom

SpecTuple == InitTuple /\ [][NextTuple]_vars

(***************************************************************************)
(* SpecCanvas: a canvas is created and then resized, written and read in   *)
(* any order; a panic ends the program.                                    *)
(***************************************************************************)
\* the widths and the heights asked of new and resize, and the columns and
\* rows read by get_pixel
Widths == 0..2

Dims == 0..(MaxY + 1)

InitCanvas ==
    /\ pc = "new"
    /\ err = ""
    /\ \E w \in Widths, h \in Dims :
          /\ canvas = new(w, h)
          /\ last = Call("new", w, h, CLEAR_COLOR, <<>>)
    /\ got = None
    /\ ppm = NoPpm
    /\ RayIdle /\ MatIdle /\ TupleIdle /\ CallIdle

Resize ==
    /\ err = ""
    /\ \E new_width \in Widths, new_height \in Dims :
          /\ canvas' = resize(canvas, new_width, new_height)
          /\ last' = Call("resize", new_width, new_height, CLEAR_COLOR, canvas)
    /\ pc' = "resize"
    /\ UNCHANGED <<err, got, ppm, ray_vars, mat_vars, tuple_vars, call_vars>>

SetPixel ==
    /\ err = ""
    /\ \E x \in {0, 1, USIZE_MAX}, y \in (0..MaxY) \cup {USIZE_MAX},
          color \in Colors, overflow_checks \in BOOLEAN :
          LET r == set_pixel(canvas, x, y, color, overflow_checks) IN
          /\ canvas' = r.data
          /\ err' = r.err
          /\ last' = Call("set_pixel", x, y, color, canvas)
    /\ pc' = "set_pixel"
    /\ UNCHANGED <<got, ppm, ray_vars, mat_vars, tuple_vars, call_vars>>

GetPixel ==
    /\ err = ""
    /\ \E x \in Widths, y \in Dims :
          /\ got' = get_pixel(canvas, x, y)
          /\ last' = Call("get_pixel", x, y, CLEAR_COLOR, canvas)
    /\ pc' = "get_pixel"
    /\ UNCHANGED <<err, canvas, ppm, ray_vars, mat_vars, tuple_vars, call_vars>>

NextCanvas == Resize \/ SetPixel \/ GetPixel

SpecCanvas == InitCanvas /\ [][NextCanvas]_vars

(***************************************************************************)
(* SpecPpm: a canvas of any size and content is exported by write_ppm into *)
(* a writer that may fail.                                                 *)
(***************************************************************************)
\* channels below 0, inside [0, 1] (exact, between two integers and halfway
\* between two integers once multiplied by 255), above 1 and not finite
PpmColors ==
    {Color(Flt(-1, 2), Flt(1, 4), Flt(17, 10)),
     Color(Flt(49, 510), Flt(1, 2), F(1)),
     Color(NAN, INFINITY, F(0))}

\* the rectangular grids of up to two columns: every one is what new,
\* set_pixel and resize can build
Grids ==
    UNION {[1..w -> [1..h -> PpmColors]] : w \in {0, 1, 2}, h \in 0..MaxH}

Rooms == {None, Some(0), Some(2), Some(4)}

InitPpm ==
    /\ pc = "start"
    /\ err = ""
    /\ canvas \in Grids
    /\ last = Call("none", 0, 0, CLEAR_COLOR, <<>>)
    /\ got = None
    /\ ppm = NoPpm
    /\ RayIdle /\ MatIdle /\ TupleIdle /\ CallIdle

WritePpm ==
    /\ pc = "start"
    /\ pc' = "write_ppm"
    /\ \E room \in Rooms :
          LET r == write_ppm(canvas, room) IN
          /\ ppm' = r
          /\ err' = IF r.err \in {"", "io"} THEN "" ELSE r.err
    /\ last' = Call("write_ppm", 0, 0, CLEAR_COLOR, canvas)
    /\ UNCHANGED <<canvas, got, ray_vars, mat_vars, tuple_vars, call_vars>>

NextPpm == WritePpm

SpecPpm == InitPpm /\ [][NextPpm]_vars
(***************************************************************************)
(* SpecLight: a caller holding a material, a point light, a surface point, *)
(* an eye vector and a normal calls Material::lighting.                    *)
(***************************************************************************)
Materials ==
    {default_material,
     Material(Color(F(1), Flt(1, 2), F(0)), Flt(1, 5), Flt(7, 10), Flt(3, 10), F(3))}

\* lights in front of and behind the surface, straight and offset
Lights ==
    {PointLight(Tuple(F(0), F(10 * k), F(z)), intensity) :
        k \in 0..MaxLightY, z \in {-10, 10}, intensity \in {white, Color(Flt(1, 2), F(1), F(1))}}

\* the second point is where one of the lights is
SurfacePoints == {origin, Tuple(F(0), F(0), F(10))}

Eyes ==
    {Tuple(F(0), F(0), F(-1)), Tuple(F(0), F(0), F(1)), Tuple(F(0), F(1), F(0)),
     Tuple(F(0), Flt(3, 5), Flt(-4, 5))}

Normals == {Tuple(F(0), F(0), F(-1)), Tuple(F(0), F(0), F(1)), Tuple(F(0), F(1), F(0))}

LightingArgs(self, light, point, eye, normal) ==
    [self |-> self, light |-> light, point |-> point, eye |-> eye, normal |-> normal]

InitLight ==
    /\ pc = "start"
    /\ err = ""
    /\ args \in {LightingArgs(m, l, p, e, n) :
                    m \in Materials, l \in Lights, p \in SurfacePoints,
                    e \in Eyes, n \in Normals}
    /\ result = <<>>
    /\ RayIdle /\ MatIdle /\ TupleIdle /\ CanvasIdle

Lighting ==
    /\ pc = "start"
    /\ pc' = "lighting"
    /\ result' = lighting(args.self, args.light, args.point, args.eye, args.normal)
    /\ UNCHANGED <<err, args, ray_vars, mat_vars, tuple_vars, canvas_vars>>

NextLight == Lighting

SpecLight == InitLight /\ [][NextLight]_vars

(***************************************************************************)
(* SpecChain: a caller holding three 4x4 matrices and a 4x1 column         *)
(* multiplies them as one product applied to the column, and as three      *)
(* applications one after the other.                                       *)
(***************************************************************************)
\* a translation, two scalings, a quarter turn and a turn by the angle of
\* the 3-4-5 triangle, a shearing and a matrix with a projective last row
ChainMatrices ==
    {translation(F(10), F(5), F(7)),
     scaling(F(5), F(5), F(5)),
     scaling(Flt(1, 2), F(-1), F(2)),
     rotation_x(F(1), F(0)),
     rotation_x(Flt(4, 5), Flt(3, 5)),
     shearing(F(1), F(0), F(0), F(0), F(0), F(1)),
     projective(F(0), F(0), F(1), F(1))}

ChainColumns ==
    {point_into(Tuple(F(1), F(0), F(1))), vector_into(Tuple(F(1), F(0), F(1))),
     point_into(Tuple(F(-1), F(2), F(3))), vector_into(Tuple(F(0), F(1), F(0)))}

InitChain ==
    /\ pc = "start"
    /\ err = ""
    /\ args \in {[t |-> t, s |-> s, r |-> r, p |-> p] :
                    t \in ChainMatrices, s \in ChainMatrices, r \in ChainMatrices,
                    p \in ChainColumns}
    /\ result = <<>>
    /\ RayIdle /\ MatIdle /\ TupleIdle /\ CanvasIdle

Chain ==
    /\ pc = "start"
    /\ pc' = "chain"
    /\ result' = [product |-> matmul(matmul(matmul(args.t, args.s), args.r), args.p),
                  stepwise |-> matmul(args.t, matmul(args.s, matmul(args.r, args.p)))]
    /\ UNCHANGED <<err, args, ray_vars, mat_vars, tuple_vars, canvas_vars>>

NextChain == Chain

SpecChain == InitChain /\ [][NextChain]_vars

(***************************************************************************)
(* SpecMove: a caller builds a translation and applies it to a vector, to  *)
(* a point, and through Ray::transform to the ray made of the two.         *)
(***************************************************************************)
Offsets == {F(-3), F(0), Flt(1, 2), F(5)}

MovedTuples ==
    {Tuple(F(0), F(0), F(0)), Tuple(F(0), F(1), F(0)), Tuple(F(-3), F(4), F(5)),
     Tuple(Flt(1, 2), F(-2), Flt(3, 4))}

InitMove ==
    /\ pc = "start"
    /\ err = ""
    /\ args \in {[x |-> x, y |-> y, z |-> z, p |-> p, v |-> v] :
                    x \in Offsets, y \in Offsets, z \in Offsets,
                    p \in MovedTuples, v \in MovedTuples}
    /\ result = <<>>
    /\ RayIdle /\ MatIdle /\ TupleIdle /\ CanvasIdle

Translate ==
    /\ pc = "start"
    /\ pc' = "translate"
    /\ LET m == translation(args.x, args.y, args.z)
           vcol == matmul(m, vector_into(args.v))
           pcol == matmul(m, point_into(args.p))
       IN  result' = [vcol |-> vcol, vector |-> vector_try_from(vcol),
                      pcol |-> pcol, point |-> point_try_from(pcol),
                      ray |-> transform(Ray(args.p, args.v), m)]
    /\ UNCHANGED <<err, args, ray_vars, mat_vars, tuple_vars, canvas_vars>>

NextMove == Translate

SpecMove == InitMove /\ [][NextMove]_vars

(***************************************************************************)
(* SpecCross: a caller holding two vectors takes their cross product in    *)
(* both orders.                                                            *)
(***************************************************************************)
CrossVectors ==
    {Tuple(x, y, z) : x \in {F(-2), F(0), Flt(1, 2), F(3)},
                      y \in {F(-2), F(0), Flt(1, 2), F(3)},
                      z \in {F(-2), F(0), Flt(1, 2), F(3)}}
    \cup {Tuple(F(1), F(2), F(3)), Tuple(F(2), F(3), F(4))}

InitCross ==
    /\ pc = "start"
    /\ err = ""
    /\ args \in {[a |-> a, b |-> b] : a \in CrossVectors, b \in CrossVectors}
    /\ result = <<>>
    /\ RayIdle /\ MatIdle /\ TupleIdle /\ CanvasIdle

Cross ==
    /\ pc = "start"
    /\ pc' = "cross"
    /\ result' = [ab |-> cross(args.a, args.b), ba |-> cross(args.b, args.a)]
    /\ UNCHANGED <<err, args, ray_vars, mat_vars, tuple_vars, canvas_vars>>

NextCross == Cross

SpecCross == InitCross /\ [][NextCross]_vars

(***************************************************************************)
(* SpecNormal: a caller holding a sphere and a world point calls           *)
(* Sphere::normal_at; a panic ends the program.                            *)
(***************************************************************************)
InitNormal ==
    /\ pc = "start"
    /\ err = ""
    /\ args \in {[self |-> s, world_point |-> p] : s \in Spheres, p \in Origins}
    /\ result = <<>>
    /\ RayIdle /\ MatIdle /\ TupleIdle /\ CanvasIdle

NormalAt ==
    /\ pc = "start"
    /\ pc' = "normal_at"
    /\ LET r == normal_at(args.self, args.world_point) IN
       /\ result' = r
       /\ err' = IF r.panicked THEN r.val ELSE ""
    /\ UNCHANGED <<args, ray_vars, mat_vars, tuple_vars, canvas_vars>>

NextNormal == NormalAt

SpecNormal == InitNormal /\ [][NextNormal]_vars

(***************************************************************************)
(* SpecRender: main renders a square canvas pixel by pixel, column after   *)
(* column, and exports it.  What the ray of a pixel hits, and the colour   *)
(* lighting returns for it, are inputs: intersect, get_hit, normal_at and  *)
(* lighting change no state.  args holds the loop counters, result the     *)
(* record of what has been done to every cell.                             *)
(***************************************************************************)
Cells(data) == (0..(width(data) - 1)) \X (0..(height(data) - 1))

\* get_hit(&intersections) with the colour lighting gives the hit
HitColors == {None, Some(Color(F(1), Flt(1, 5), F(1))), Some(Color(Flt(17, 10), F(0), Flt(-1, 2)))}

InitRender ==
    /\ pc = "render"
    /\ err = ""
    /\ \E side \in 0..MaxSide :
          /\ canvas = fixed_new(side, side)
          /\ result = [visits |-> [c \in Cells(canvas) |-> 0],
                       writes |-> [c \in Cells(canvas) |-> 0],
                       hits |-> [c \in Cells(canvas) |-> None],
                       iterations |-> 0]
    /\ args = [x |-> 0, y |-> 0]
    /\ last = Call("none", 0, 0, CLEAR_COLOR, <<>>)
    /\ got = None
    /\ ppm = NoPpm
    /\ RayIdle /\ MatIdle /\ TupleIdle

\* one iteration of the inner loop: main.rs lines 49-71
Pixel ==
    /\ pc = "render"
    /\ args.x < width(canvas)
    /\ \E hit_color \in HitColors :
          LET c == <<args.x, args.y>>
              set == IF is_some(hit_color)
                     THEN fixed_set_pixel(canvas, args.x, args.y, unwrap(hit_color))
                     ELSE Ok(canvas)
          IN  /\ result' = [visits |-> [result.visits EXCEPT ![c] = @ + 1],
                            writes |-> IF is_some(hit_color) /\ set.ok
                                       THEN [result.writes EXCEPT ![c] = @ + 1]
                                       ELSE result.writes,
                            hits |-> [result.hits EXCEPT ![c] = hit_color],
                            iterations |-> result.iterations + 1]
              /\ IF set.ok
                 THEN /\ canvas' = set.val
                      /\ args' = next_pixel(args.x, args.y, height(canvas))
                      /\ UNCHANGED <<pc, err>>
                 ELSE /\ pc' = "done"
                      /\ err' = set.val
                      /\ UNCHANGED <<canvas, args>>
    /\ UNCHANGED <<last, got, ppm, ray_vars, mat_vars, tuple_vars>>

\* after the loops: File::create and canvas.write_ppm, main.rs lines 74-76
Export ==
    /\ pc = "render"
    /\ args.x >= width(canvas)
    /\ pc' = "done"
    /\ \E room \in {None, Some(0), Some(3)} :
          LET r == write_ppm(canvas, room) IN
          /\ ppm' = r
          /\ err' = r.err
    /\ UNCHANGED <<canvas, last, got, args, result, ray_vars, mat_vars, tuple_vars>>

NextRender == Pixel \/ Export

SpecRender == InitRender /\ [][NextRender]_vars

\* the step main takes once the loops are through: within NextRender it is
\* an Export step, and Export can always be taken then
LoopsLeft == pc = "render" /\ args.x >= width(canvas) /\ pc' = "done"

\* main is one sequential program: the loop body runs while pixels are
\* left, and the export follows the loops
SpecRenderFair == SpecRender /\ WF_args(Pixel) /\ WF_pc(LoopsLeft)

(***************************************************************************)
(* Reference definitions used by the properties                            *)
(***************************************************************************)
\* the matrix without row 0 and column col
Minor(mm, n, col) ==
    [i \in 0..(n - 2) |-> [j \in 0..(n - 2) |-> mm[i + 1][IF j < col THEN j ELSE j + 1]]]

\* the determinant by its definition: cofactor expansion along the first row
RECURSIVE Det(_, _), DetSum(_, _, _)
Det(mm, n) == IF n = 1 THEN mm[0][0] ELSE DetSum(mm, n, 0)

DetSum(mm, n, j) ==
    IF j = n THEN F(0)
    ELSE LET term == FMul(mm[0][j], Det(Minor(mm, n, j), n - 1)) IN
         FAdd(IF j % 2 = 0 THEN term ELSE FNeg(term), DetSum(mm, n, j + 1))

\* the indices of the candidates with t > 0
Positive(xs) == {i \in 1..Len(xs) : FGt(xs[i].t, F(0))}

\* the inverse of the sphere's transform, the ray in the sphere's local space
\* and the discriminant of its quadratic
InverseOf == inverse4x4(sphere.transform)
LocalRay == transform(world_ray, unwrap(InverseOf)).val
LocalQuadratic == quadratic(LocalRay)
LocalDiscriminant == discriminant(LocalQuadratic)

Returned(op) == pc = op /\ err = ""

\* the x, y, z of a 4x1 matrix
xyz(mm) == Tuple(mm[0][0], mm[1][0], mm[2][0])

(***************************************************************************)
(* Properties of get_hit (SpecHit)                                         *)
(***************************************************************************)
\* C1: for every list of intersections get_hit returns the intersection with
\* the smallest strictly positive t, and None if and only if no candidate has
\* t > 0; candidates with t <= 0 are never returned.
C1_SmallestPositive ==
    pc = "get_hit" =>
        /\ hit = None <=> Positive(intersections) = {}
        /\ hit # None =>
              /\ \E i \in Positive(intersections) : intersections[i] = unwrap(hit)
              /\ \A i \in Positive(intersections) : FLe(unwrap(hit).t, intersections[i].t)

(***************************************************************************)
(* Properties of Ray::intersect and Ray::transform (SpecRay)               *)
(***************************************************************************)
\* C2: a call of intersect that returns, returns zero or exactly two
\* intersections, never one: zero exactly when the transform has no inverse or
\* the discriminant of the local quadratic is negative; with discriminant 0 it
\* returns two intersections with the same t (both NaN when the direction is
\* the zero vector, equal numbers otherwise).
C2_ZeroOrTwo ==
    Returned("intersect") =>
        /\ Len(intersections) \in {0, 2}
        /\ Len(intersections) = 0 <=>
              (InverseOf = None \/ FLt(LocalDiscriminant, F(0)))
        /\ (InverseOf # None /\ FEq(LocalDiscriminant, F(0))) =>
              /\ Len(intersections) = 2
              /\ intersections[1].t = intersections[2].t
              /\ LocalQuadratic.a # F(0) => FEq(intersections[1].t, intersections[2].t)

C2_Tangent ==
    /\ Returned("intersect")
    /\ InverseOf # None
    /\ sphere.transform # identity(4)
    /\ FEq(LocalDiscriminant, F(0))
    /\ LocalQuadratic.a # F(0)
    /\ Len(intersections) = 2
    /\ FEq(intersections[1].t, intersections[2].t)

\* C3: when intersect returns two intersections for a ray with non-zero
\* direction and a sphere with invertible transform, the first t is less than
\* or equal to the second.
C3_Ascending ==
    (/\ Returned("intersect")
     /\ Len(intersections) = 2
     /\ world_ray.direction # Tuple(F(0), F(0), F(0))
     /\ InverseOf # None)
        => FLe(intersections[1].t, intersections[2].t)

C3_TwoDistinctRoots ==
    /\ Returned("intersect")
    /\ Len(intersections) = 2
    /\ world_ray.direction # Tuple(F(0), F(0), F(0))
    /\ sphere.transform # identity(4)
    /\ FLt(intersections[1].t, F(0))
    /\ FLt(intersections[1].t, intersections[2].t)

\* C4: when the sphere's transform has no inverse, intersect returns the empty
\* list and does not panic.
C4_NonInvertibleIsMiss ==
    (pc = "intersect" /\ InverseOf = None) => (err = "" /\ intersections = <<>>)

C4_SingularScaling ==
    /\ pc = "intersect"
    /\ sphere.transform = scaling(F(0), F(1), F(1))
    /\ InverseOf = None
    /\ err = ""
    /\ intersections = <<>>

\* C5: intersect is total: for every ray and every sphere whose transform is
\* any 4x4 matrix it returns a list and never terminates abnormally.
C5_IntersectTotal == pc = "intersect" => err = ""

\* C6: transform(M) is total for every 4x4 matrix M: it returns the ray with
\* origin M * origin and direction M * direction, without failing.
C6_TransformTotal ==
    pc = "transform" =>
        /\ err = ""
        /\ moved = Some(Ray(xyz(matmul(sphere.transform, point_into(world_ray.origin))),
                            xyz(matmul(sphere.transform, vector_into(world_ray.direction)))))

(***************************************************************************)
(* Properties of inverse (SpecMat)                                         *)
(***************************************************************************)
\* C7: for 2x2, 3x3 and 4x4 matrices inverse returns None exactly when the
\* determinant is 0 and Some(matrix) otherwise; the identity is its own
\* inverse and the all-ones matrix has none.
C7_InverseIffDeterminant ==
    pc \in {"inverse", "matmul"} =>
        LET n == NRows(matrix) IN
        /\ inv = None <=> Det(matrix, n) = F(0)
        /\ matrix = identity(n) => inv = Some(matrix)
        /\ matrix = ones(n, n) => inv = None

C7_Inverted4x4 ==
    /\ pc = "inverse"
    /\ NRows(matrix) = 4
    /\ inv # None
    /\ Det(matrix, 4) \notin {F(0), F(1), F(-1)}
    /\ unwrap(inv) # matrix

\* C8: for every invertible matrix M of size 2x2, 3x3 or 4x4,
\* M.matmul(M.inverse()) is the identity matrix.
C8_ProductIsIdentity ==
    pc = "matmul" => prod = Some(identity(NRows(matrix)))

C8_Product4x4 ==
    /\ pc = "matmul"
    /\ NRows(matrix) = 4
    /\ matrix \notin Transforms
    /\ Det(matrix, 4) \notin {F(1), F(-1)}
    /\ prod = Some(identity(4))

(***************************************************************************)
(* Properties of TryFrom<Matrix<4, 1>> (SpecTuple)                         *)
(***************************************************************************)
Carries(e, mm) ==
    e.x = mm[0][0] /\ e.y = mm[1][0] /\ e.z = mm[2][0] /\ e.w = mm[3][0]

\* C9: converting a 4x1 matrix to a Point succeeds iff its w is exactly 1, to
\* a Vector iff its w is exactly 0; on success x, y, z are copied unchanged,
\* otherwise the result is an error carrying x, y, z and w.
C9_ExactW ==
    /\ pc = "point_try_from" =>
          /\ converted.ok <=> column[3][0] = F(1)
          /\ converted.ok => converted.val = xyz(column)
          /\ ~converted.ok => Carries(converted.val, column)
    /\ pc = "vector_try_from" =>
          /\ converted.ok <=> column[3][0] = F(0)
          /\ converted.ok => converted.val = xyz(column)
          /\ ~converted.ok => Carries(converted.val, column)

C9_NearlyOneRejected ==
    /\ pc = "point_try_from"
    /\ column[3][0] = Flt(99999, 100000)
    /\ ~converted.ok
    /\ Carries(converted.val, column)

(***************************************************************************)
(* Properties of Canvas (SpecCanvas)                                       *)
(***************************************************************************)
\* C10 as stated: after any sequence of operations, set_pixel(x, y, c) for
\* arbitrary x and y is followed by get_pixel(x, y) = Some(c).
C10_SetThenGet ==
    pc = "set_pixel" =>
        /\ err = ""
        /\ get_pixel(canvas, last.x, last.y) = Some(last.color)

\* C10 amended: after any sequence of operations, set_pixel(x, y, c) with x
\* and y below usize::MAX returns, get_pixel(x, y) is then Some(c) with c
\* exactly as given, and the canvas has grown to hold (x, y).
C10_SetThenGetBelowMax ==
    (pc = "set_pixel" /\ last.x < USIZE_MAX /\ last.y < USIZE_MAX) =>
        /\ err = ""
        /\ get_pixel(canvas, last.x, last.y) = Some(last.color)
        /\ width(canvas) = max(last.old_width, last.x + 1)
        /\ height(canvas) = max(last.old_height, last.y + 1)

C10_GrownAndOverwritten ==
    /\ pc = "set_pixel"
    /\ err = ""
    /\ last.x >= last.old_width
    /\ last.y >= last.old_height
    /\ last.old_width > 0
    /\ last.color # CLEAR_COLOR
    /\ get_pixel(canvas, last.x, last.y) = Some(last.color)

\* C11: get_pixel(x, y) returns None exactly when x >= width() or
\* y >= height() and Some(the stored pixel) otherwise, never fails, and leaves
\* the canvas, its dimensions and all its pixels, unchanged.
C11_GetPixelReadsOnly ==
    [][pc' = "get_pixel" =>
          /\ err' = ""
          /\ got' = None <=> (last'.x >= width(canvas) \/ last'.y >= height(canvas))
          /\ got' # None => got' = Some(canvas[last'.x + 1][last'.y + 1])
          /\ canvas' = canvas
          /\ width(canvas') = last'.old_width
          /\ height(canvas') = last'.old_height]_vars

C11_AbsentBelowWidth ==
    /\ pc = "get_pixel"
    /\ last.x < width(canvas)
    /\ last.y >= height(canvas)
    /\ height(canvas) > 0
    /\ got = None

(***************************************************************************)
(* Properties of write_ppm (SpecPpm)                                       *)
(***************************************************************************)
\* the pixel the k-th pixel line (k from 0) is claimed to show
PixelOfLine(k) == canvas[(k % width(canvas)) + 1][(k \div width(canvas)) + 1]

\* C12: write_ppm emits the lines P3, <width> <height>, 255 and then exactly
\* width * height pixel lines in row-major order: the k-th pixel line is the
\* pixel at x = k mod width, y = k div width, and nothing follows the last.
C12_RowMajor ==
    (pc = "write_ppm" /\ ppm.err = "") =>
        /\ Len(ppm.lines) = 3 + width(canvas) * height(canvas)
        /\ ppm.lines[1] = <<"P3">>
        /\ ppm.lines[2] = <<width(canvas), height(canvas)>>
        /\ ppm.lines[3] = <<255>>
        /\ \A k \in 0..(width(canvas) * height(canvas) - 1) :
              ppm.lines[4 + k] = pixel_line(PixelOfLine(k))

C12_TwoByTwo ==
    /\ pc = "write_ppm"
    /\ ppm.err = ""
    /\ width(canvas) = 2
    /\ height(canvas) = 2
    /\ canvas[1][2] # canvas[2][1]
    /\ Len(ppm.lines) = 7
    /\ ppm.lines[5] = pixel_line(canvas[2][1])

\* v is the integer written for the stored channel c: in 0..255, 0 for
\* c <= 0, 255 for c >= 1, and otherwise an integer nearest to 255 * c
Written(v, c) ==
    /\ v \in 0..255
    /\ FLe(c, F(0)) => v = 0
    /\ FLe(F(1), c) => v = 255
    /\ (FLt(F(0), c) /\ FLt(c, F(1))) =>
          LET t == FMul(F(255), c)
              diff == v * t.d - t.n
          IN  2 * Abs(diff) <= t.d

AllWritten ==
    \A i \in 4..Len(ppm.lines) :
        LET pixel == PixelOfLine(i - 4) IN
        /\ Written(ppm.lines[i][1], pixel.r)
        /\ Written(ppm.lines[i][2], pixel.g)
        /\ Written(ppm.lines[i][3], pixel.b)

\* C13: every channel value written by write_ppm is an integer in 0..255
\* equal to round(clamp(255 * channel, 0, 255)), 0 for a stored channel <= 0
\* and 255 for one >= 1, and the export does not modify the stored colours.
C13_ClampedOnExport ==
    [][pc' = "write_ppm" => (AllWritten' /\ canvas' = canvas)]_vars

C13_ClampedBothWays ==
    /\ pc = "write_ppm"
    /\ ppm.err = ""
    /\ Len(ppm.lines) > 3
    /\ canvas[1][1] = Color(Flt(-1, 2), Flt(1, 4), Flt(17, 10))
    /\ ppm.lines[4] = <<0, 64, 255>>

(***************************************************************************)
(* Properties of Canvas::resize and Canvas::new (SpecCanvas)               *)
(***************************************************************************)
\* C14 as stated: after resize(new_width, new_height) on any reachable canvas,
\* width() = new_width and height() = new_height, for all new_width and
\* new_height.
C14_ResizeSetsBoth ==
    pc = "resize" => (width(canvas) = last.x /\ height(canvas) = last.y)

\* C14 amended: after resize(new_width, new_height) on any reachable canvas,
\* width() = new_width, and height() = new_height when new_width > 0; with
\* new_width = 0 the canvas has no column and height() = 0.
C14_ResizeSetsWidth ==
    pc = "resize" =>
        /\ err = ""
        /\ width(canvas) = last.x
        /\ height(canvas) = IF last.x > 0 THEN last.y ELSE 0

C14_WiderAndLower ==
    /\ pc = "resize"
    /\ last.x > last.old_width
    /\ last.old_width > 0
    /\ last.y < last.old_height
    /\ last.y > 0
    /\ width(canvas) = last.x
    /\ height(canvas) = last.y

\* the number of pixels a canvas holds
RECURSIVE PixelCount(_)
PixelCount(data) ==
    IF data = <<>> THEN 0 ELSE Len(Head(data)) + PixelCount(Tail(data))

\* C15: Canvas::new(w, h) with w > 0 and h > 0 yields a canvas with
\* width() = w, height() = h and exactly w * h pixels, all equal to the clear
\* colour (black); if w = 0 or h = 0 the canvas has width() = 0 and
\* height() = 0.
C15_NewCanvas ==
    pc = "new" =>
        IF last.x > 0 /\ last.y > 0
        THEN /\ width(canvas) = last.x
             /\ height(canvas) = last.y
             /\ PixelCount(canvas) = last.x * last.y
             /\ \A x \in 1..Len(canvas) : \A y \in 1..Len(canvas[x]) :
                   canvas[x][y] = Color(F(0), F(0), F(0))
        ELSE width(canvas) = 0 /\ height(canvas) = 0 /\ PixelCount(canvas) = 0

C15_TwoByOne ==
    /\ pc = "new"
    /\ last.x = 2
    /\ last.y = 1
    /\ width(canvas) = 2
    /\ height(canvas) = 1
    /\ PixelCount(canvas) = 2


(***************************************************************************)
(* Properties of Material::lighting (SpecLight)                            *)
(***************************************************************************)
\* the dot product of the unit vector towards the light and the normal
LightDotNormal == dot(normalize(sub(args.light.position, args.point)), args.normal)

\* material.color * light.intensity * material.ambient
AmbientTerm ==
    color_mul_float(color_mul(args.self.color, args.light.intensity), args.self.ambient)

\* C16: whenever the dot product of the light vector and the normal is zero
\* or negative, lighting leaves the diffuse and the specular term black and
\* returns exactly the ambient term, color * intensity * ambient, whatever
\* the eye vector is.
C16_AmbientOnly ==
    (pc = "lighting" /\ FLe(LightDotNormal, F(0))) =>
        /\ result.diffuse = black
        /\ result.specular = black
        /\ result.color = AmbientTerm
        /\ \A eye \in Eyes :
              lighting(args.self, args.light, args.point, eye, args.normal).color
                  = result.color

\* a coloured light in the plane of the surface (dot product zero) whose
\* mirror image shines straight into the eye, on the default material
C16_GrazingLight ==
    /\ pc = "lighting"
    /\ FEq(LightDotNormal, F(0))
    /\ FGt(dot(reflect(vector_neg(normalize(sub(args.light.position, args.point))),
                       args.normal), args.eye), F(0))
    /\ args.self = default_material
    /\ result.color = Color(Flt(1, 20), Flt(1, 10), Flt(1, 10))


\* the worked example: default material, the point at the origin, eye and
\* normal (0, 0, -1), a white light at (0, 10, -10)
C17_Example ==
    /\ pc = "lighting"
    /\ args = LightingArgs(default_material,
                           PointLight(Tuple(F(0), F(10), F(-10)), white),
                           origin, Tuple(F(0), F(0), F(-1)), Tuple(F(0), F(0), F(-1)))

\* every channel of color is within tol of v
NearGrey(color, v, tol) ==
    \A c \in {color.r, color.g, color.b} :
        FLe(FSub(v, tol), c) /\ FLe(c, FAdd(v, tol))

\* C17 as stated: in the worked example lighting takes the branch of a dot
\* product that is zero or negative and returns about (0.1, 0.1, 0.1).
C17_ExampleIsAmbient ==
    C17_Example => (FLe(LightDotNormal, F(0)) /\ NearGrey(result.color, Flt(1, 10), Flt(1, 1000)))

\* C17, amended: in the worked example the dot product of the light vector
\* and the normal is positive (about 0.7071), so lighting adds the diffuse
\* term 0.9 * 0.7071 to the ambient 0.1, the specular term is negligible,
\* and the result is about (0.7364, 0.7364, 0.7364).
C17_ExampleIsLit ==
    C17_Example =>
        /\ FGt(LightDotNormal, F(0))
        /\ NearGrey(result.ambient, Flt(1, 10), F(0))
        /\ NearGrey(result.diffuse, Flt(6364, 10000), Flt(1, 1000))
        /\ NearGrey(result.specular, F(0), Flt(1, 1000))
        /\ NearGrey(result.color, Flt(7364, 10000), Flt(1, 1000))

\* the worked example has been computed, and its diffuse term is not black
C17_ExampleDiffuse == C17_Example /\ result.diffuse # black


(***************************************************************************)
(* Properties of Matrix::matmul and translation (SpecChain, SpecMove)      *)
(***************************************************************************)
\* C18: for 4x4 matrices T, S, R and a 4x1 column p, the product
\* T.matmul(S).matmul(R) applied to p equals T applied to (S applied to
\* (R applied to p)): R acts first, then S, then T.
C18_LeftMultiplication ==
    pc = "chain" => result.product = result.stepwise

\* the chain of the crate's test: a quarter turn about x, then a scaling by
\* 5, then a translation by (10, 5, 7) take the point (1, 0, 1) to
\* (15, 0, 7), and the opposite order of application does not
C18_TurnScaleMove ==
    /\ pc = "chain"
    /\ args.t = translation(F(10), F(5), F(7))
    /\ args.s = scaling(F(5), F(5), F(5))
    /\ args.r = rotation_x(F(1), F(0))
    /\ args.p = point_into(Tuple(F(1), F(0), F(1)))
    /\ result.product = point_into(Tuple(F(15), F(0), F(7)))
    /\ matmul(args.r, matmul(args.s, matmul(args.t, args.p))) # result.product


\* C19: translation(x, y, z) applied to a Vector v gives a column with
\* w = 0 that converts back to exactly v; applied to a Point p it gives a
\* column with w = 1 that converts to p + (x, y, z); and Ray::transform with
\* a translation returns the ray with the origin moved by (x, y, z) and the
\* direction unchanged.
C19_TranslationSparesDirections ==
    pc = "translate" =>
        LET offset == Tuple(args.x, args.y, args.z) IN
        /\ result.vcol[3][0] = F(0)
        /\ result.vector = Ok(args.v)
        /\ result.pcol[3][0] = F(1)
        /\ result.point = Ok(add(args.p, offset))
        /\ result.ray = Return(Ray(add(args.p, offset), args.v))

\* a translation with three non-zero offsets has been applied to a vector
\* and a point with non-zero components: the point and the ray's origin
\* have moved, the vector and the ray's direction have not
C19_MovedOriginOnly ==
    /\ pc = "translate"
    /\ args.x # F(0) /\ args.y # F(0) /\ args.z # F(0)
    /\ args.v = Tuple(F(-3), F(4), F(5))
    /\ args.p = Tuple(Flt(1, 2), F(-2), Flt(3, 4))
    /\ ~result.ray.panicked
    /\ result.ray.val.origin # args.p
    /\ result.ray.val.direction = args.v
    /\ result.point.val # args.p


(***************************************************************************)
(* Properties of Vector::cross (SpecCross)                                 *)
(***************************************************************************)
\* C20: the cross product is anti-commutative: every component of
\* a.cross(b) equals the negated component of b.cross(a).
C20_AntiCommutative ==
    pc = "cross" =>
        /\ FEq(result.ab.x, FNeg(result.ba.x))
        /\ FEq(result.ab.y, FNeg(result.ba.y))
        /\ FEq(result.ab.z, FNeg(result.ba.z))

\* the vectors of the crate's test: (1, 2, 3) x (2, 3, 4) = (-1, 2, -1)
\* and (2, 3, 4) x (1, 2, 3) = (1, -2, 1)
C20_TestVectors ==
    /\ pc = "cross"
    /\ args.a = Tuple(F(1), F(2), F(3))
    /\ args.b = Tuple(F(2), F(3), F(4))
    /\ result.ab = Tuple(F(-1), F(2), F(-1))
    /\ result.ba = Tuple(F(1), F(-2), F(1))


(***************************************************************************)
(* Further properties of Ray::intersect (SpecRay)                          *)
(***************************************************************************)
\* C21: every intersection returned by Ray::intersect carries the sphere
\* that was passed in, with its own transform and material, not the unit
\* sphere of local space.
C21_TaggedWithArgument ==
    (pc = "intersect" /\ err = "") =>
        \A i \in DOMAIN intersections : intersections[i].object = sphere

\* a ray has hit a sphere that is scaled, so that it differs from the unit
\* sphere, and both intersections carry the scaled sphere
C21_ScaledSphereTagged ==
    /\ pc = "intersect"
    /\ err = ""
    /\ sphere.transform = scaling(F(2), F(2), F(1))
    /\ Len(intersections) = 2
    /\ intersections[1].object.transform = scaling(F(2), F(2), F(1))
    /\ intersections[2].object = sphere


(***************************************************************************)
(* Properties of Sphere::normal_at (SpecNormal)                            *)
(***************************************************************************)
\* C22: Sphere::normal_at fails if and only if the sphere's transform is
\* singular (its determinant is zero), and then on the inverse; for every
\* invertible transform, affine or not, the w of the world normal is 0
\* when it is converted, so the conversion to a Vector never fails.
C22_FailsOnlyWhenSingular ==
    pc = "normal_at" =>
        /\ result.panicked <=> FEq(determinant4x4(args.self.transform), F(0))
        /\ result.panicked => result.val = "transform should be invertible"

\* a translated sphere and a point for which the transposed inverse gives
\* the world normal a non-zero w before it is cleared
C22_TranslatedSphere ==
    /\ pc = "normal_at"
    /\ args.self.transform = translation(F(0), F(1), F(0))
    /\ args.world_point = origin
    /\ LET inv_transform == unwrap(inverse4x4(args.self.transform)) IN
       matmul(transpose(inv_transform),
              zero_w(matmul(inv_transform, point_into(args.world_point))))[3][0] # F(0)
    /\ result = Return(Tuple(F(0), F(-1), F(0)))


(***************************************************************************)
(* Properties of determinant and inverse (SpecMat)                         *)
(***************************************************************************)
\* the matrix without row `row` and column `col`
Submatrix(m, row, col) ==
    [i \in 0..(NRows(m) - 2) |->
        [j \in 0..(NCols(m) - 2) |->
            m[IF i < row THEN i ELSE i + 1][IF j < col THEN j ELSE j + 1]]]

\* the cofactor expansion along the first row, by recursion on the size
RECURSIVE Expansion(_)
RECURSIVE ExpansionFrom(_, _)
ExpansionFrom(m, j) ==
    IF j = NCols(m) THEN F(0)
    ELSE LET term == FMul(m[0][j], Expansion(Submatrix(m, 0, j))) IN
         FAdd(IF j % 2 = 0 THEN term ELSE FNeg(term), ExpansionFrom(m, j + 1))

Expansion(m) == IF NRows(m) = 1 THEN m[0][0] ELSE ExpansionFrom(m, 0)

\* the signed minor of entry (row, col)
Cofactor(m, row, col) ==
    LET minor == Expansion(Submatrix(m, row, col)) IN
    IF (row + col) % 2 = 0 THEN minor ELSE FNeg(minor)

\* determinant() of the implementation that fits the size of m
Determinant(m) ==
    IF NRows(m) = 2 THEN determinant2x2(m)
    ELSE IF NRows(m) = 3 THEN determinant3x3(m)
    ELSE determinant4x4(m)

\* C23: for 3x3 and 4x4 matrices determinant(), the closed-form
\* expression, equals the cofactor expansion along the first row computed
\* recursively from submatrices, and for a 2x2 matrix it is a*d - b*c.
C23_DeterminantIsExpansion ==
    pc = "inverse" =>
        /\ Determinant(matrix) = Expansion(matrix)
        /\ NRows(matrix) = 2 =>
              Determinant(matrix) = FSub(FMul(matrix[0][0], matrix[1][1]),
                                         FMul(matrix[0][1], matrix[1][0]))

\* inverse has taken the determinant of a 4x4 matrix with no zero in its
\* first row, and it is neither zero nor one
C23_FullFirstRow ==
    /\ pc = "inverse"
    /\ NRows(matrix) = 4
    /\ \A j \in 0..3 : j # 2 => matrix[0][j] # F(0)
    /\ matrix[3][0] # F(0)
    /\ determinant4x4(matrix) \notin {F(0), F(1)}
    /\ determinant4x4(matrix) = Expansion(matrix)


\* C24: for every matrix with a non-zero determinant inverse returns a
\* matrix, and each of its entries satisfies
\* inv[col][row] = cofactor(row, col) / determinant: the inverse is the
\* transposed cofactor matrix divided by the determinant, for all 4, 9 and
\* 16 index pairs of a 2x2, 3x3 and 4x4 matrix.
C24_InverseIsAdjugate ==
    (pc = "inverse" /\ ~FEq(Determinant(matrix), F(0))) =>
        /\ inv # None
        /\ \A row \in DOMAIN matrix : \A col \in DOMAIN matrix :
              unwrap(inv)[col][row]
                  = FDiv(Cofactor(matrix, row, col), Determinant(matrix))

\* a 3x3 matrix has been inverted whose determinant is not 1 or -1 and
\* whose inverse is not symmetric, so that dividing and transposing both
\* show
C24_Inverted3x3 ==
    /\ pc = "inverse"
    /\ NRows(matrix) = 3
    /\ inv # None
    /\ Determinant(matrix) \notin {F(1), F(-1)}
    /\ unwrap(inv) # transpose(unwrap(inv))
    /\ unwrap(inv)[0][1] = FDiv(Cofactor(matrix, 1, 0), Determinant(matrix))


\* the t values of a list of intersections, in order
TValuesOf(xs) == [i \in DOMAIN xs |-> xs[i].t]

\* the transform is invertible and affine: its last row is 0 0 0 1
InvertibleAffine(m) ==
    /\ inverse4x4(m) # None
    /\ m[3] = [j \in 0..3 |-> IF j = 3 THEN F(1) ELSE F(0)]

\* C25: for a sphere with an invertible affine transform T, ray.intersect
\* returns the t values of the ray transformed by inverse(T) against the
\* unit sphere at the origin, as they are (and fails as that transformation
\* fails, should it fail), and leaves the ray it was called on unchanged.
C25_LocalSpace ==
    [][(pc' = "intersect" /\ InvertibleAffine(sphere.transform)) =>
          LET local == transform(world_ray, unwrap(inverse4x4(sphere.transform))) IN
          /\ IF local.panicked
             THEN err' = local.val
             ELSE /\ err' = ""
                  /\ TValuesOf(intersections')
                        = TValuesOf(intersect(local.val, default_sphere).val)
          /\ world_ray' = world_ray]_vars

\* a sphere scaled by 2 and moved up by 1 has been hit twice, at t values
\* that are not those of the unit sphere for the same ray
C25_ScaledAndMoved ==
    /\ pc = "intersect"
    /\ err = ""
    /\ sphere.transform = matmul(translation(F(0), F(1), F(0)), scaling(F(2), F(2), F(2)))
    /\ Len(intersections) = 2
    /\ intersections[1].t # intersections[2].t
    /\ TValuesOf(intersections) # TValuesOf(intersect(world_ray, default_sphere).val)


(***************************************************************************)
(* Further properties of get_hit (SpecHit)                                 *)
(***************************************************************************)
\* the positions of the candidates with the smallest strictly positive t
Nearest(xs) ==
    {i \in Positive(xs) : \A j \in Positive(xs) : FLe(xs[i].t, xs[j].t)}

\* C26: when several intersections share the smallest strictly positive t,
\* get_hit returns the one that comes first in the list; whatever it
\* returns is an element of the list, and the list is not modified.
C26_FirstOfTies ==
    [][pc' = "get_hit" =>
          /\ intersections' = intersections
          /\ hit' # None => \E i \in DOMAIN intersections : intersections[i] = unwrap(hit')
          /\ Cardinality(Nearest(intersections)) >= 2 =>
                hit' = Some(intersections[CHOOSE i \in Nearest(intersections) :
                                             \A j \in Nearest(intersections) : i <= j])]_vars


(***************************************************************************)
(* Further properties of Canvas (SpecCanvas)                               *)
(***************************************************************************)
\* C27: set_pixel(x, y, c) never shrinks the canvas and changes only the
\* target cell: when it returns, width() = max(old width, x + 1) and
\* height() = max(old height, y + 1), every cell that existed before other
\* than (x, y) keeps its colour and every new cell other than (x, y) holds
\* the clear colour; a call that fails leaves every cell that existed as
\* it was, too.
C27_SetPixelFrame ==
    [][pc' = "set_pixel" =>
          /\ width(canvas') >= width(canvas)
          /\ height(canvas') >= height(canvas)
          /\ \A i \in 1..width(canvas) : \A j \in 1..height(canvas) :
                (err' # "" \/ <<i, j>> # <<last'.x + 1, last'.y + 1>>) =>
                    canvas'[i][j] = canvas[i][j]
          /\ err' = "" =>
                /\ width(canvas') = max(width(canvas), last'.x + 1)
                /\ height(canvas') = max(height(canvas), last'.y + 1)
                /\ \A i \in 1..width(canvas') : Len(canvas'[i]) = height(canvas')
                /\ \A i \in 1..width(canvas') : \A j \in 1..height(canvas') :
                      ((i > width(canvas) \/ j > height(canvas))
                        /\ <<i, j>> # <<last'.x + 1, last'.y + 1>>) =>
                          canvas'[i][j] = CLEAR_COLOR]_vars

\* a write beyond both dimensions has grown a canvas that held a pixel of
\* another colour, and that pixel is still there
C27_GrownAroundPixel ==
    /\ pc = "set_pixel"
    /\ err = ""
    /\ last.x >= last.old_width
    /\ last.y >= last.old_height
    /\ \E i \in 1..last.old_width : \E j \in 1..last.old_height :
          canvas[i][j] # CLEAR_COLOR


\* C28: in every canvas state reachable by new, resize and set_pixel the
\* grid is rectangular, all columns having length height(), so get_pixel is
\* Some for every x < width() and y < height(), and write_ppm into a writer
\* that does not fail writes every pixel without its expect firing.
C28_Rectangular ==
    /\ \A i \in 1..width(canvas) : Len(canvas[i]) = height(canvas)
    /\ \A x \in 0..(width(canvas) - 1) : \A y \in 0..(height(canvas) - 1) :
          get_pixel(canvas, x, y) # None
    /\ LET out == write_ppm(canvas, None) IN
       /\ out.err = ""
       /\ Len(out.lines) = 3 + width(canvas) * height(canvas)

\* a canvas with columns but no rows has been grown by a write into its
\* second column, and all four pixels are there
C28_GrownFromZeroHeight ==
    /\ pc = "set_pixel"
    /\ err = ""
    /\ last.old_width = 1
    /\ last.old_height = 0
    /\ last.x = 1
    /\ last.y = 1
    /\ width(canvas) = 2
    /\ \A i \in 1..2 : Len(canvas[i]) = 2


\* C29: in every canvas state reachable by new, resize and set_pixel,
\* width() = 0 if and only if height() = 0: a canvas has no columns exactly
\* when it has no rows, as Canvas::new leaves it.
C29_ZeroTogether ==
    (width(canvas) = 0) <=> (height(canvas) = 0)


(***************************************************************************)
(* Properties of the driver (SpecRenderFair)                               *)
(***************************************************************************)
\* at any moment: no cell has been visited or written twice, a cell has
\* been written exactly if it was visited and its ray had a hit, the canvas
\* holds the hit colours and is clear elsewhere, and nothing is exported
\* before the loops are through
RenderSoFar ==
    /\ result.iterations <= width(canvas) * height(canvas)
    /\ \A c \in Cells(canvas) :
          /\ result.visits[c] <= 1
          /\ result.writes[c] = IF result.hits[c] # None THEN 1 ELSE 0
          /\ result.hits[c] # None => result.visits[c] = 1
          /\ canvas[c[1] + 1][c[2] + 1]
                = IF result.hits[c] # None THEN unwrap(result.hits[c]) ELSE CLEAR_COLOR
    /\ pc = "render" => ppm = NoPpm

\* once main has returned: every cell has been visited exactly once, in
\* width * height iterations, and a file written to the end holds the canvas
\* as the loops left it
RenderDone ==
    pc = "done" =>
        /\ err \in {"", "io"}
        /\ result.iterations = width(canvas) * height(canvas)
        /\ \A c \in Cells(canvas) : result.visits[c] = 1
        /\ ppm.err = "" => ppm = write_ppm(canvas, None)

\* C30: the render loop visits every (x, y) with x < width and y < height
\* exactly once, writes each cell at most once and only when the ray of
\* that pixel has a hit, terminates after width * height iterations, and
\* exports the PPM only after all pixel writes.
C30_RenderLoop ==
    /\ [](RenderSoFar /\ RenderDone)
    /\ <>(pc = "done")

\* main has returned after rendering the largest canvas with hits and
\* misses, and the whole file is written
C30_RenderedAndExported ==
    /\ pc = "done"
    /\ err = ""
    /\ width(canvas) = MaxSide
    /\ result.iterations = MaxSide * MaxSide
    /\ \E c \in Cells(canvas) : result.writes[c] = 1
    /\ \E c \in Cells(canvas) : result.writes[c] = 0
    /\ Len(ppm.lines) = 3 + MaxSide * MaxSide

====
